---- MODULE Spec2Model ----
(***************************************************************************)
(* Model of oobabot's VoiceClient (src/src/oobabot/voice_client.py): the   *)
(* voice handshake of connect(), the two gateway handlers, disconnect()    *)
(* and the handler of the Discrivener notifications.                       *)
(*                                                                         *)
(* The client is an asyncio program.  A step of the model is one           *)
(* coroutine run from the moment the event loop resumes it to the moment   *)
(* it returns or reaches the one wait other tasks are needed for (the      *)
(* handshake wait of connect()).  The variable act records what the last   *)
(* step was and which calls it made on the client's collaborators (the     *)
(* gateway, the Discrivener, the AudioResponder, the Transcript), and the  *)
(* exception it raised.                                                    *)
(***************************************************************************)
EXTENDS Integers, Sequences, FiniteSets, TLC

\* Bounds of the model.
MaxScheduled == 1      \* callbacks waiting in the event loop
MaxTranscript == 2     \* messages the transcript sink has been handed

\* Inputs.
MISSING == "MISSING"
NoChannel == "None"
VoiceChannels == {"c1", "c2"}
\* "text" is a channel of the guild that is no voice channel, "unknown" is
\* no channel of the guild.
ChannelIds == VoiceChannels \cup {"text", "unknown", NoChannel}
Sessions == {"s1"}
Messages == {"m1", "m2"}
ServerUpdates == {"valid", "null_endpoint", "null_token"}
\* Strings the code takes apart are sequences of characters.
WssPrefix == <<"w", "s", "s", ":", "/", "/">>
Host == <<"h", "o", "s", "t">>
Port443 == <<":", "4", "4", "3">>
\* "wss://region123.example.com:443"
RegionEndpoint ==
    <<"w", "s", "s", ":", "/", "/", "r", "e", "g", "i", "o", "n",
      "1", "2", "3", ".", "e", "x", "a", "m", "p", "l", "e", ".",
      "c", "o", "m", ":", "4", "4", "3">>
\* "region123.example.com"
RegionHost ==
    <<"r", "e", "g", "i", "o", "n", "1", "2", "3", ".", "e", "x",
      "a", "m", "p", "l", "e", ".", "c", "o", "m">>
\* The endpoints of a voice-server-update: with and without the "wss://"
\* prefix, with and without a port.
Endpoints ==
    {Host, Host \o Port443, WssPrefix \o Host, WssPrefix \o Host \o Port443,
     RegionEndpoint}
Digits == {"0", "1", "2", "3", "4", "5", "6", "7", "8", "9"}
MessageTypes ==
    {"CONNECT", "RECONNECT", "DISCONNECT", "USER_JOIN", "TRANSCRIBED_MESSAGE", "UNKNOWN"}

VARIABLES
    channel,                  \* self.channel
    session_id,               \* self._session_id
    handshaking,              \* self._handshaking
    oobabot_voice_connected,  \* self._oobabot_voice_connected
    discrivener_connected,    \* self._discrivener_connected
    voice_state_complete,     \* self._voice_state_complete (asyncio.Event)
    voice_server_complete,    \* self._voice_server_complete (asyncio.Event)
    discrivener_running,      \* Discrivener.is_running()
    responder_running,        \* the AudioResponder is started
    transcript,               \* what Transcript.on_transcribed_message was given
    pc,                       \* the owner task: "idle" or "wait" (in connect())
    scheduled,                \* callbacks given to loop.call_soon_threadsafe
    act,                      \* the last step: op, arg, calls made (fx), exception
    last_note,        \* history: the last connect/reconnect/disconnect notification
    state_delivered,  \* history: a state-update came during this wait
    server_delivered, \* history: a valid server-update came during this wait
    null_delivered,   \* history: a server-update with a null field came in this wait
    server_accepted   \* history: a server-update started this connection's session

vars == <<channel, session_id, handshaking, oobabot_voice_connected,
          discrivener_connected, voice_state_complete, voice_server_complete,
          discrivener_running, responder_running, transcript, pc, scheduled,
          act, last_note, state_delivered, server_delivered, null_delivered,
          server_accepted>>

\* A step: msg is the message of a transcribed-message notification,
\* endpoint the endpoint of a voice-server-update, run_endpoint the
\* endpoint Discrivener.run was called with; empty where there is none.
Step(op, arg, fx, raised) ==
    [op |-> op, arg |-> arg, fx |-> fx, raised |-> raised,
     msg |-> "", endpoint |-> <<>>, run_endpoint |-> <<>>]

\* str.rpartition(":")[0]: what precedes the last ":", and the empty string
\* when the string holds no ":".
rpartition_head(e) ==
    LET colons == {i \in 1..Len(e) : e[i] = ":"}
    IN  IF colons = {}
        THEN <<>>
        ELSE SubSeq(e, 1, (CHOOSE i \in colons : \A j \in colons : j <= i) - 1)

\* str.startswith.
startswith(e, prefix) ==
    Len(e) >= Len(prefix) /\ SubSeq(e, 1, Len(prefix)) = prefix

\* The normalization without the rpartition: only the prefix is removed.
normalize_endpoint_keep_port(e) ==
    IF startswith(e, WssPrefix) THEN SubSeq(e, 7, Len(e)) ELSE e

\* on_voice_server_update: the endpoint handed to Discrivener.run.
normalize_endpoint(e) ==
    LET head == rpartition_head(e)
    IN  IF startswith(head, WssPrefix) THEN SubSeq(head, 7, Len(head)) ELSE head

\* The calls of a complete teardown.
Teardown == {"leave", "stop", "responder_stop", "cleanup"}

\* self._potentially_reconnecting is set in __init__ and nowhere else.
potentially_reconnecting == FALSE

Init ==
    /\ channel = "c1"
    /\ session_id = MISSING
    /\ handshaking = FALSE
    /\ oobabot_voice_connected = FALSE
    /\ discrivener_connected = FALSE
    /\ voice_state_complete = FALSE
    /\ voice_server_complete = FALSE
    /\ discrivener_running = FALSE
    /\ responder_running = FALSE
    /\ transcript = <<>>
    /\ pc = "idle"
    /\ scheduled = <<>>
    /\ act = Step("init", "", {}, "none")
    /\ last_note = "none"
    /\ state_delivered = FALSE
    /\ server_delivered = FALSE
    /\ null_delivered = FALSE
    /\ server_accepted = FALSE

\* is_connected without the is_running() test.
is_connected_no_running ==
    IF ~oobabot_voice_connected THEN FALSE
    ELSE discrivener_connected

\* VoiceClient.is_connected; self._discrivener is never None.
is_connected ==
    IF ~oobabot_voice_connected THEN FALSE
    ELSE IF ~discrivener_running THEN FALSE
    ELSE discrivener_connected

\* VoiceClient.voice_disconnect: the new values of the flags it writes, the
\* calls it makes and the exception it ends with.  leave_ok is whether
\* guild.change_voice_state(channel=None) returns or raises.
voice_disconnect(leave_ok) ==
    IF leave_ok
    THEN [connected |-> FALSE, running |-> FALSE, responder |-> FALSE,
          fx |-> {"leave", "stop", "responder_stop"}, raised |-> "none"]
    ELSE [connected |-> FALSE, running |-> discrivener_running,
          responder |-> responder_running,
          fx |-> {"leave"}, raised |-> "GatewayError"]

\* disconnect() without the test of force and is_connected().
disconnect_unguarded(force, leave_ok) ==
    LET d == voice_disconnect(leave_ok)
    IN  [d EXCEPT !.fx = d.fx \cup {"cleanup"}]

\* VoiceClient.disconnect: try voice_disconnect() finally cleanup().
disconnect(force, leave_ok) ==
    IF ~force /\ ~is_connected
    THEN [connected |-> oobabot_voice_connected, running |-> discrivener_running,
          responder |-> responder_running, fx |-> {}, raised |-> "none"]
    ELSE LET d == voice_disconnect(leave_ok)
         IN  [d EXCEPT !.fx = d.fx \cup {"cleanup"}]

\* The assignments of a step that ran disconnect() with the result d.
ApplyDisconnect(d) ==
    /\ oobabot_voice_connected' = d.connected
    /\ discrivener_running' = d.running
    /\ responder_running' = d.responder
    /\ server_accepted' = (server_accepted /\ "leave" \notin d.fx)

\* connect() without the is_connected() test.
connect_unchecked ==
    /\ pc = "idle"
    /\ voice_state_complete' = FALSE
    /\ voice_server_complete' = FALSE
    /\ handshaking' = TRUE
    /\ state_delivered' = FALSE
    /\ server_delivered' = FALSE
    /\ null_delivered' = FALSE
    /\ server_accepted' = FALSE
    /\ pc' = "wait"
    /\ act' = Step("connect", "", {"join"}, "none")
    /\ UNCHANGED <<channel, session_id, oobabot_voice_connected,
                   discrivener_connected, discrivener_running,
                   responder_running, transcript, scheduled, last_note>>

\* VoiceClient.connect up to the handshake wait.  join_ok is whether
\* voice_connect()'s guild.change_voice_state returns or raises.
connect ==
    /\ pc = "idle"
    /\ IF is_connected
       THEN /\ act' = Step("connect", "", {}, "AlreadyConnected")
            /\ UNCHANGED <<channel, session_id, handshaking, oobabot_voice_connected,
                           discrivener_connected, voice_state_complete,
                           voice_server_complete, discrivener_running,
                           responder_running, transcript, pc, scheduled, last_note,
                           state_delivered, server_delivered, null_delivered,
                           server_accepted>>
       ELSE /\ voice_state_complete' = FALSE
            /\ voice_server_complete' = FALSE
            /\ handshaking' = TRUE
            /\ state_delivered' = FALSE
            /\ server_delivered' = FALSE
            /\ null_delivered' = FALSE
            /\ server_accepted' = FALSE
            /\ \E join_ok \in BOOLEAN :
                   IF join_ok
                   THEN pc' = "wait" /\ act' = Step("connect", "", {"join"}, "none")
                   ELSE /\ pc' = "idle"
                        /\ act' = Step("connect", "", {"join"}, "GatewayError")
            /\ UNCHANGED <<channel, session_id, oobabot_voice_connected,
                           discrivener_connected, discrivener_running,
                           responder_running, transcript, scheduled, last_note>>

\* connect() after sane_wait_for returned: both waits are done.
connect_complete ==
    /\ pc = "wait"
    /\ voice_state_complete /\ voice_server_complete
    /\ oobabot_voice_connected' = TRUE
    /\ voice_state_complete' = FALSE
    /\ voice_server_complete' = FALSE
    /\ handshaking' = FALSE
    /\ pc' = "idle"
    /\ act' = Step("connect_complete", "", {}, "none")
    /\ UNCHANGED <<channel, session_id, discrivener_connected, discrivener_running,
                   responder_running, transcript, scheduled, last_note,
                   state_delivered, server_delivered, null_delivered,
                   server_accepted>>

\* connect() after sane_wait_for raised asyncio.TimeoutError: a wait is pending.
connect_timeout ==
    /\ pc = "wait"
    /\ ~(voice_state_complete /\ voice_server_complete)
    /\ \E leave_ok \in BOOLEAN :
           LET d == disconnect(TRUE, leave_ok)
           IN  /\ ApplyDisconnect(d)
               /\ act' = Step("connect_timeout", "", d.fx,
                              IF d.raised = "none" THEN "HandshakeTimeout" ELSE d.raised)
    /\ pc' = "idle"
    /\ UNCHANGED <<channel, session_id, handshaking, discrivener_connected,
                   voice_state_complete, voice_server_complete, transcript,
                   scheduled, last_note, state_delivered, server_delivered,
                   null_delivered>>

\* on_voice_state_update adopting the channel without looking it up.
on_voice_state_update_any_channel(sid, channel_id) ==
    /\ session_id' = sid
    /\ state_delivered' = (state_delivered \/ pc = "wait")
    /\ IF ~handshaking \/ potentially_reconnecting
       THEN IF channel_id = NoChannel
            THEN /\ \E leave_ok \in BOOLEAN :
                        LET d == disconnect(FALSE, leave_ok)
                        IN  /\ ApplyDisconnect(d)
                            /\ act' = Step("state_update", channel_id, d.fx, d.raised)
                 /\ UNCHANGED <<channel, voice_state_complete>>
            ELSE /\ channel' = channel_id
                 /\ act' = Step("state_update", channel_id, {}, "none")
                 /\ UNCHANGED <<oobabot_voice_connected, discrivener_running,
                                responder_running, server_accepted,
                                voice_state_complete>>
       ELSE /\ voice_state_complete' = TRUE
            /\ act' = Step("state_update", channel_id, {}, "none")
            /\ UNCHANGED <<channel, oobabot_voice_connected, discrivener_running,
                           responder_running, server_accepted>>
    /\ UNCHANGED <<handshaking, discrivener_connected, voice_server_complete,
                   transcript, pc, scheduled, last_note, server_delivered,
                   null_delivered>>

\* VoiceClient.on_voice_state_update, the gateway's voice-state-update
\* {session_id, channel_id}; it awaits disconnect() when the channel is null.
on_voice_state_update(sid, channel_id) ==
    /\ session_id' = sid
    /\ state_delivered' = (state_delivered \/ pc = "wait")
    /\ IF ~handshaking \/ potentially_reconnecting
       THEN IF channel_id = NoChannel
            THEN /\ \E leave_ok \in BOOLEAN :
                        LET d == disconnect(FALSE, leave_ok)
                        IN  /\ ApplyDisconnect(d)
                            /\ act' = Step("state_update", channel_id, d.fx, d.raised)
                 /\ UNCHANGED <<channel, voice_state_complete>>
            ELSE /\ IF channel_id = "unknown"
                    THEN UNCHANGED channel
                    ELSE IF channel_id \notin VoiceChannels
                         THEN UNCHANGED channel
                         ELSE channel' = channel_id
                 /\ act' = Step("state_update", channel_id, {}, "none")
                 /\ UNCHANGED <<oobabot_voice_connected, discrivener_running,
                                responder_running, server_accepted,
                                voice_state_complete>>
       ELSE /\ voice_state_complete' = TRUE
            /\ act' = Step("state_update", channel_id, {}, "none")
            /\ UNCHANGED <<channel, oobabot_voice_connected, discrivener_running,
                           responder_running, server_accepted>>
    /\ UNCHANGED <<handshaking, discrivener_connected, voice_server_complete,
                   transcript, pc, scheduled, last_note, server_delivered,
                   null_delivered>>

\* on_voice_server_update that starts the session and the sinks and does not
\* set the server signal.
on_voice_server_update_no_set(data, endpoint) ==
    /\ server_delivered' = (server_delivered \/ (pc = "wait" /\ data = "valid"))
    /\ null_delivered' = (null_delivered \/ (pc = "wait" /\ data # "valid"))
    /\ IF voice_server_complete \/ data \in {"null_endpoint", "null_token"}
       THEN /\ act' = [Step("server_update", data, {}, "none")
                         EXCEPT !.endpoint = endpoint]
            /\ UNCHANGED <<discrivener_running, responder_running, server_accepted>>
       ELSE /\ discrivener_running' = TRUE
            /\ responder_running' = TRUE
            /\ server_accepted' = TRUE
            /\ act' = [Step("server_update", data, {"run", "responder_start"}, "none")
                         EXCEPT !.endpoint = endpoint,
                                !.run_endpoint = normalize_endpoint(endpoint)]
    /\ UNCHANGED <<channel, session_id, handshaking, oobabot_voice_connected,
                   discrivener_connected, voice_state_complete,
                   voice_server_complete, transcript, pc, scheduled, last_note,
                   state_delivered>>

\* VoiceClient.on_voice_server_update, the gateway's voice-server-update;
\* data tells whether its endpoint and token are there, endpoint is the
\* endpoint (empty when it is null).
on_voice_server_update(data, endpoint) ==
    /\ server_delivered' = (server_delivered \/ (pc = "wait" /\ data = "valid"))
    /\ null_delivered' = (null_delivered \/ (pc = "wait" /\ data # "valid"))
    /\ IF voice_server_complete
       THEN /\ act' = [Step("server_update", data, {}, "none")
                         EXCEPT !.endpoint = endpoint]
            /\ UNCHANGED <<discrivener_running, responder_running,
                           voice_server_complete, server_accepted>>
       ELSE IF data \in {"null_endpoint", "null_token"}
            THEN /\ act' = [Step("server_update", data, {}, "none")
                              EXCEPT !.endpoint = endpoint]
                 /\ UNCHANGED <<discrivener_running, responder_running,
                                voice_server_complete, server_accepted>>
            ELSE /\ discrivener_running' = TRUE
                 /\ responder_running' = TRUE
                 /\ voice_server_complete' = TRUE
                 /\ server_accepted' = TRUE
                 /\ act' = [Step("server_update", data,
                                  {"run", "responder_start"}, "none")
                              EXCEPT !.endpoint = endpoint,
                                     !.run_endpoint = normalize_endpoint(endpoint)]
    /\ UNCHANGED <<channel, session_id, handshaking, oobabot_voice_connected,
                   discrivener_connected, voice_state_complete, transcript, pc,
                   scheduled, last_note, state_delivered>>

\* The handler running the teardown itself, inside the notification callback.
handle_discrivener_output_inline(type, msg) ==
    /\ IF type \in {"CONNECT", "RECONNECT"}
       THEN /\ voice_state_complete' = TRUE
            /\ discrivener_connected' = TRUE
            /\ last_note' = type
            /\ act' = Step("notify", type, {}, "none")
            /\ UNCHANGED <<scheduled, transcript, oobabot_voice_connected,
                           discrivener_running, responder_running>>
       ELSE IF type = "DISCONNECT"
       THEN /\ voice_state_complete' = TRUE
            /\ discrivener_connected' = FALSE
            /\ last_note' = type
            /\ oobabot_voice_connected' = FALSE
            /\ discrivener_running' = FALSE
            /\ responder_running' = FALSE
            /\ act' = Step("notify", type, Teardown, "none")
            /\ UNCHANGED <<scheduled, transcript>>
       ELSE IF type = "USER_JOIN"
       THEN /\ act' = Step("notify", type, {}, "none")
            /\ UNCHANGED <<voice_state_complete, discrivener_connected, last_note,
                           scheduled, transcript, oobabot_voice_connected,
                           discrivener_running, responder_running>>
       ELSE IF type = "TRANSCRIBED_MESSAGE"
       THEN /\ IF msg \notin Messages
               THEN /\ act' = [Step("notify", type, {}, "none") EXCEPT !.msg = msg]
                    /\ UNCHANGED transcript
               ELSE /\ transcript' = Append(transcript, msg)
                    /\ act' = [Step("notify", type, {"forward"}, "none")
                                 EXCEPT !.msg = msg]
            /\ UNCHANGED <<voice_state_complete, discrivener_connected, last_note,
                           scheduled, oobabot_voice_connected,
                           discrivener_running, responder_running>>
       ELSE /\ act' = Step("notify", type, {}, "none")
            /\ UNCHANGED <<voice_state_complete, discrivener_connected, last_note,
                           scheduled, transcript, oobabot_voice_connected,
                           discrivener_running, responder_running>>
    /\ UNCHANGED <<channel, session_id, handshaking, voice_server_complete,
                   pc, state_delivered, server_delivered, null_delivered,
                   server_accepted>>

\* The handler putting a transcribed message in front of the earlier ones.
handle_discrivener_output_prepend(type, msg) ==
    /\ IF type \in {"CONNECT", "RECONNECT"}
       THEN /\ voice_state_complete' = TRUE
            /\ discrivener_connected' = TRUE
            /\ last_note' = type
            /\ act' = Step("notify", type, {}, "none")
            /\ UNCHANGED <<scheduled, transcript>>
       ELSE IF type = "DISCONNECT"
       THEN /\ voice_state_complete' = TRUE
            /\ discrivener_connected' = FALSE
            /\ last_note' = type
            /\ scheduled' = Append(scheduled,
                                   IF is_connected THEN "was_connected" ELSE "not_connected")
            /\ act' = Step("notify", type, {"call_soon"}, "none")
            /\ UNCHANGED transcript
       ELSE IF type = "USER_JOIN"
       THEN /\ act' = Step("notify", type, {}, "none")
            /\ UNCHANGED <<voice_state_complete, discrivener_connected, last_note,
                           scheduled, transcript>>
       ELSE IF type = "TRANSCRIBED_MESSAGE"
       THEN /\ IF msg \notin Messages
               THEN /\ act' = [Step("notify", type, {}, "none") EXCEPT !.msg = msg]
                    /\ UNCHANGED transcript
               ELSE /\ transcript' = <<msg>> \o transcript
                    /\ act' = [Step("notify", type, {"forward"}, "none")
                                 EXCEPT !.msg = msg]
            /\ UNCHANGED <<voice_state_complete, discrivener_connected, last_note,
                           scheduled>>
       ELSE /\ act' = Step("notify", type, {}, "none")
            /\ UNCHANGED <<voice_state_complete, discrivener_connected, last_note,
                           scheduled, transcript>>
    /\ UNCHANGED <<channel, session_id, handshaking, oobabot_voice_connected,
                   voice_server_complete, discrivener_running, responder_running,
                   pc, state_delivered, server_delivered, null_delivered,
                   server_accepted>>

\* VoiceClient._handle_discrivener_output.  msg is the payload of a
\* TRANSCRIBED_MESSAGE: a message, or "other" for an object that is no
\* TranscribedMessage.  asyncio.get_event_loop() returns a loop or raises,
\* never None.  The entry put in scheduled is self.disconnect; the tag kept
\* with it records is_connected() when the notification arrived.
handle_discrivener_output(type, msg) ==
    /\ IF type \in {"CONNECT", "RECONNECT"}
       THEN /\ voice_state_complete' = TRUE
            /\ discrivener_connected' = TRUE
            /\ last_note' = type
            /\ act' = Step("notify", type, {}, "none")
            /\ UNCHANGED <<scheduled, transcript>>
       ELSE IF type = "DISCONNECT"
       THEN /\ voice_state_complete' = TRUE
            /\ discrivener_connected' = FALSE
            /\ last_note' = type
            /\ scheduled' = Append(scheduled,
                                   IF is_connected THEN "was_connected" ELSE "not_connected")
            /\ act' = Step("notify", type, {"call_soon"}, "none")
            /\ UNCHANGED transcript
       ELSE IF type = "USER_JOIN"
       THEN /\ act' = Step("notify", type, {}, "none")
            /\ UNCHANGED <<voice_state_complete, discrivener_connected, last_note,
                           scheduled, transcript>>
       ELSE IF type = "TRANSCRIBED_MESSAGE"
       THEN /\ IF msg \notin Messages
               THEN /\ act' = [Step("notify", type, {}, "none") EXCEPT !.msg = msg]
                    /\ UNCHANGED transcript
               ELSE /\ transcript' = Append(transcript, msg)
                    /\ act' = [Step("notify", type, {"forward"}, "none")
                                 EXCEPT !.msg = msg]
            /\ UNCHANGED <<voice_state_complete, discrivener_connected, last_note,
                           scheduled>>
       ELSE /\ act' = Step("notify", type, {}, "none")
            /\ UNCHANGED <<voice_state_complete, discrivener_connected, last_note,
                           scheduled, transcript>>
    /\ UNCHANGED <<channel, session_id, handshaking, oobabot_voice_connected,
                   voice_server_complete, discrivener_running, responder_running,
                   pc, state_delivered, server_delivered, null_delivered,
                   server_accepted>>

\* The event loop runs a callback of loop.call_soon_threadsafe(self.disconnect).
\* disconnect is a coroutine function: the call makes a coroutine object that
\* nothing awaits, so no line of disconnect() runs.
scheduled_disconnect ==
    /\ scheduled # <<>>
    /\ scheduled' = Tail(scheduled)
    /\ act' = Step("scheduled_disconnect", Head(scheduled), {}, "none")
    /\ UNCHANGED <<channel, session_id, handshaking, oobabot_voice_connected,
                   discrivener_connected, voice_state_complete,
                   voice_server_complete, discrivener_running, responder_running,
                   transcript, pc, last_note, state_delivered,
                   server_delivered, null_delivered,
                   server_accepted>>

\* The owner calls disconnect(force=...).
owner_disconnect(force) ==
    /\ pc = "idle"
    /\ \E leave_ok \in BOOLEAN :
           LET d == disconnect(force, leave_ok)
           IN  /\ ApplyDisconnect(d)
               /\ act' = Step("disconnect", IF force THEN "force" ELSE "noforce",
                              d.fx, d.raised)
    /\ UNCHANGED <<channel, session_id, handshaking, discrivener_connected,
                   voice_state_complete, voice_server_complete, transcript, pc,
                   scheduled, last_note, state_delivered, server_delivered,
                   null_delivered>>

\* VoiceClient.move_to: only the gateway request.
move_to(c) ==
    /\ pc = "idle"
    /\ \E ok \in BOOLEAN :
           act' = Step("move_to", c, {"move"}, IF ok THEN "none" ELSE "GatewayError")
    /\ UNCHANGED <<channel, session_id, handshaking, oobabot_voice_connected,
                   discrivener_connected, voice_state_complete,
                   voice_server_complete, discrivener_running, responder_running,
                   transcript, pc, scheduled, last_note, state_delivered,
                   server_delivered, null_delivered, server_accepted>>

\* The Discrivener process ends by itself: is_running() turns false.
discrivener_exit ==
    /\ discrivener_running
    /\ discrivener_running' = FALSE
    /\ act' = Step("discrivener_exit", "", {}, "none")
    /\ UNCHANGED <<channel, session_id, handshaking, oobabot_voice_connected,
                   discrivener_connected, voice_state_complete,
                   voice_server_complete, responder_running, transcript, pc,
                   scheduled, last_note, state_delivered, server_delivered,
                   null_delivered,
                   server_accepted>>

\* The gateway delivers a voice-state-update.
StateUpdate ==
    \E sid \in Sessions, c \in ChannelIds : on_voice_state_update(sid, c)

\* The gateway delivers a voice-server-update.
ServerUpdate ==
    \E data \in ServerUpdates, endpoint \in Endpoints \cup {<<>>} :
        /\ (data = "null_endpoint") <=> (endpoint = <<>>)
        /\ (data = "null_token") => (endpoint = Host \o Port443)
        /\ on_voice_server_update(data, endpoint)

\* The Discrivener, while it runs, delivers a notification.  Each message
\* of Messages is one TranscribedMessage object, delivered once.
Notify ==
    /\ discrivener_running
    /\ \E type \in MessageTypes, msg \in Messages \cup {"other"} :
           /\ type = "DISCONNECT" => Len(scheduled) < MaxScheduled
           /\ type = "TRANSCRIBED_MESSAGE" =>
                  /\ Len(transcript) < MaxTranscript
                  /\ \A i \in 1..Len(transcript) : transcript[i] # msg
           /\ type # "TRANSCRIBED_MESSAGE" => msg = "other"
           /\ handle_discrivener_output(type, msg)

Disconnect ==
    \E force \in BOOLEAN : owner_disconnect(force)

MoveTo ==
    \E c \in VoiceChannels : move_to(c)

Next ==
    \/ connect
    \/ connect_complete
    \/ connect_timeout
    \/ StateUpdate
    \/ ServerUpdate
    \/ Notify
    \/ scheduled_disconnect
    \/ Disconnect
    \/ MoveTo
    \/ discrivener_exit

Spec == Init /\ [][Next]_vars

\* The event loop resumes connect() once both waits are done.
FairSpec == Spec /\ WF_vars(connect_complete)

\* C1: when a voice-state-update and a valid voice-server-update have both
\* been delivered during the handshake wait of connect(), in any order, the
\* wait ends, and it ends with connect() returning normally and the
\* connection marked connected.
C1_BothDeliveredConnects ==
    /\ [][(pc = "wait" /\ state_delivered /\ server_delivered /\ pc' # "wait")
             => /\ act'.op = "connect_complete"
                /\ act'.raised = "none"
                /\ oobabot_voice_connected']_vars
    /\ ((pc = "wait" /\ state_delivered /\ server_delivered) ~> (pc = "idle"))

\* connect() has returned normally after both gateway events were delivered.
C1_Witness ==
    /\ act.op = "connect_complete"
    /\ state_delivered /\ server_delivered
    /\ oobabot_voice_connected

\* C2: connect() returns normally only if a voice-state-update and a valid
\* voice-server-update were both delivered during its wait.
C2_SuccessNeedsBothEvents ==
    act.op = "connect_complete" => (state_delivered /\ server_delivered)

\* C3: once a valid voice-server-update has started the session of a
\* connection, a further voice-server-update starts neither the Discrivener
\* nor the sinks.
C3_DuplicateServerUpdateDiscarded ==
    [][(server_accepted /\ act'.op = "server_update") => act'.fx = {}]_vars

\* C4: the disconnect() scheduled by a disconnect notification that arrived
\* while is_connected() was true performs the full teardown when the event
\* loop runs it.
C4_ScheduledDisconnectTearsDown ==
    (act.op = "scheduled_disconnect" /\ act.arg = "was_connected")
        => (Teardown \subseteq act.fx /\ ~discrivener_running /\ ~responder_running)

\* C5: is_connected() is true exactly when the connection is marked
\* connected, the Discrivener is running and the last connect, reconnect or
\* disconnect notification was a connect or a reconnect.
C5_IsConnectedThreeWay ==
    is_connected <=> /\ oobabot_voice_connected
                     /\ discrivener_running
                     /\ last_note \in {"CONNECT", "RECONNECT"}

\* is_connected() is true.
C5_Witness ==
    is_connected /\ last_note = "RECONNECT"

\* C6: connect() called while is_connected() is true raises the
\* already-connected error, sends no gateway request and leaves both
\* handshake signals and the handshaking and connected flags as they were.
C6_ConnectWhileConnected ==
    [][(is_connected /\ act'.op = "connect")
          => /\ act'.raised = "AlreadyConnected"
             /\ act'.fx = {}
             /\ UNCHANGED <<voice_state_complete, voice_server_complete,
                            handshaking, oobabot_voice_connected>>]_vars

\* connect() has just failed with the already-connected error.
C6_Witness ==
    act.op = "connect" /\ act.raised = "AlreadyConnected" /\ is_connected

\* C7: a voice-server-update with a null endpoint or token sets no signal
\* and starts nothing, and a wait of connect() during which the state-update
\* and such a server-update were delivered and no valid server-update was
\* ends with the handshake-timeout error.
C7_NullServerUpdateTimesOut ==
    [][/\ (act'.op = "server_update" /\ act'.arg # "valid")
            => /\ act'.fx = {}
               /\ UNCHANGED <<voice_server_complete, discrivener_running,
                              responder_running>>
       /\ (/\ pc = "wait" /\ pc' = "idle"
           /\ state_delivered /\ null_delivered /\ ~server_delivered)
            => act'.raised = "HandshakeTimeout"]_vars

\* C8: when the handshake wait times out, connect() performs the whole
\* teardown (leave request, Discrivener stopped, sinks stopped, cleanup) and
\* then fails with the handshake-timeout error, is_connected() being false.
C8_TimeoutForcesTeardown ==
    act.op = "connect_timeout"
        => /\ Teardown \subseteq act.fx
           /\ ~discrivener_running
           /\ ~responder_running
           /\ ~is_connected
           /\ act.raised = "HandshakeTimeout"

\* C9: a disconnect() that goes on to the teardown stops the Discrivener
\* and the sinks and runs cleanup, also when the leave request fails.
C9_TeardownDespiteLeaveFailure ==
    "leave" \in act.fx
        => /\ {"stop", "responder_stop", "cleanup"} \subseteq act.fx
           /\ ~discrivener_running
           /\ ~responder_running

\* C10: disconnect() returns normally to its caller, also when the leave
\* request fails.
C10_LeaveFailureNotPropagated ==
    act.op = "disconnect" => act.raised = "none"

\* C11: after connect() has completed its handshake, a voice-state-update
\* whose channel is null performs the teardown (leave request, Discrivener
\* stopped, sinks stopped), whatever the Discrivener has reported so far.
C11_NullChannelTearsDown ==
    [][(/\ oobabot_voice_connected /\ ~handshaking
        /\ act'.op = "state_update" /\ act'.arg = NoChannel)
          => /\ {"leave", "stop", "responder_stop"} \subseteq act'.fx
             /\ ~discrivener_running'
             /\ ~responder_running']_vars

\* C12: disconnect(force=False) called while is_connected() is false sends
\* no gateway request, stops neither the Discrivener nor the sinks, runs no
\* cleanup and changes no flag and no signal.
C12_DisconnectNotConnectedNoOp ==
    [][(~is_connected /\ act'.op = "disconnect" /\ act'.arg = "noforce")
          => /\ act'.fx = {}
             /\ act'.raised = "none"
             /\ UNCHANGED <<channel, session_id, handshaking,
                            oobabot_voice_connected, discrivener_connected,
                            voice_state_complete, voice_server_complete,
                            discrivener_running, responder_running,
                            transcript, pc, scheduled>>]_vars

\* disconnect(force=False) has returned as a no-op although the connection
\* is marked connected and the Discrivener and the sinks are running.
C12_Witness ==
    /\ act.op = "disconnect" /\ act.arg = "noforce" /\ act.fx = {}
    /\ oobabot_voice_connected /\ discrivener_running /\ responder_running

\* A voice-server-update has just started the Discrivener.
SessionStarted == act.op = "server_update" /\ "run" \in act.fx

\* C13, as amended: given the endpoint "wss://region123.example.com:443",
\* on_voice_server_update starts the Discrivener with the endpoint
\* "region123.example.com".
C13_RegionEndpointHost ==
    (SessionStarted /\ act.endpoint = RegionEndpoint)
        => act.run_endpoint = RegionHost

\* The Discrivener has been started from "wss://region123.example.com:443".
C13_Witness ==
    SessionStarted /\ act.endpoint = RegionEndpoint /\ discrivener_running

\* C13, as claimed: given the endpoint "wss://region123.example.com:443",
\* on_voice_server_update starts the Discrivener with the endpoint
\* "region123.example.com:443".
C13_RegionEndpointKeepsPort ==
    (SessionStarted /\ act.endpoint = RegionEndpoint)
        => act.run_endpoint = RegionHost \o Port443

\* An endpoint ends in ":<port>": a ":" followed by digits only.
PortColon(e) ==
    {i \in 1..(Len(e) - 1) : e[i] = ":" /\ \A j \in (i + 1)..Len(e) : e[j] \in Digits}

\* The endpoint without a leading "wss://".
WithoutPrefix(e) ==
    IF startswith(e, WssPrefix) THEN SubSeq(e, 7, Len(e)) ELSE e

\* The endpoint without a trailing ":<port>".
WithoutPort(e) ==
    IF PortColon(e) = {} THEN e
    ELSE SubSeq(e, 1, (CHOOSE i \in PortColon(e) : TRUE) - 1)

\* C14: the endpoint the Discrivener is started with is the endpoint of the
\* voice-server-update without its leading "wss://" and without its trailing
\* ":<port>", whichever of the two the endpoint has.
C14_NormalizationKeepsHost ==
    SessionStarted => act.run_endpoint = WithoutPort(WithoutPrefix(act.endpoint))

\* C16: the handshaking flag and the connected flag are never both true.
C16_OneStatus ==
    ~(handshaking /\ oobabot_voice_connected)

\* C19: when connect() has just returned normally, is_connected() is true.
C19_ConnectedAfterConnect ==
    act.op = "connect_complete" => is_connected

\* C20: the handshaking flag is false whenever no connect() is in progress.
C20_HandshakingOnlyInConnect ==
    pc = "idle" => ~handshaking

\* C15: the handler of a disconnect notification only sets the state
\* signal, sets the transcription-connected flag to false and hands one
\* callback to the event loop; it makes no call of the teardown and stops
\* nothing itself.
C15_DisconnectNotInline ==
    [][(act'.op = "notify" /\ act'.arg = "DISCONNECT")
          => /\ act'.fx = {"call_soon"}
             /\ voice_state_complete'
             /\ ~discrivener_connected'
             /\ Len(scheduled') = Len(scheduled) + 1
             /\ UNCHANGED <<channel, session_id, handshaking,
                            oobabot_voice_connected, voice_server_complete,
                            discrivener_running, responder_running,
                            transcript, pc>>]_vars

\* A disconnect notification has been handled while the connection was
\* connected: the Discrivener and the sinks still run.
C15_Witness ==
    /\ act.op = "notify" /\ act.arg = "DISCONNECT"
    /\ scheduled = <<"was_connected">>
    /\ oobabot_voice_connected /\ discrivener_running /\ responder_running

\* C17: a voice-state-update that arrives outside the handshake and names a
\* channel unknown to the guild, or one that is no voice channel, leaves
\* the channel, the two flags and the two signals as they were and starts
\* no teardown.
C17_UnknownChannelIgnored ==
    [][(/\ ~handshaking
        /\ act'.op = "state_update" /\ act'.arg \in {"unknown", "text"})
          => /\ act'.fx = {}
             /\ act'.raised = "none"
             /\ UNCHANGED <<channel, handshaking, oobabot_voice_connected,
                            voice_state_complete, voice_server_complete,
                            discrivener_running, responder_running>>]_vars

\* After a completed handshake a voice-state-update named a text channel.
C17_Witness ==
    /\ act.op = "state_update" /\ act.arg = "text"
    /\ ~handshaking /\ oobabot_voice_connected /\ channel \in VoiceChannels

\* C18: a user-join, transcribed-message or unrecognized notification
\* changes no flag and no signal and schedules nothing; a transcribed
\* message is appended to what the transcript sink was given, once and
\* after the earlier ones, and nothing else is handed to the sink.
C18_MessagesForwardedInOrder ==
    [][(/\ act'.op = "notify"
        /\ act'.arg \in {"USER_JOIN", "TRANSCRIBED_MESSAGE", "UNKNOWN"})
          => /\ UNCHANGED <<channel, session_id, handshaking,
                            oobabot_voice_connected, discrivener_connected,
                            voice_state_complete, voice_server_complete,
                            discrivener_running, responder_running, pc,
                            scheduled>>
             /\ act'.fx \subseteq {"forward"}
             /\ IF act'.arg = "TRANSCRIBED_MESSAGE" /\ act'.msg \in Messages
                THEN /\ transcript' = Append(transcript, act'.msg)
                     /\ act'.fx = {"forward"}
                ELSE /\ transcript' = transcript
                     /\ act'.fx = {}]_vars

\* The second of two transcribed messages has been handed to the sink.
C18_Witness ==
    /\ act.op = "notify" /\ act.arg = "TRANSCRIBED_MESSAGE"
    /\ act.msg = "m1" /\ transcript = <<"m2", "m1">>
====
